---- MODULE Spec2Model ----
(***************************************************************************)
(* TemplateBloodTestParser (blood_test_parser.py): the text-to-table       *)
(* pipeline.  Text is modelled as TLA+ strings, handled character by       *)
(* character; Python's None is the empty tuple and a present value v is    *)
(* the one-element tuple <<v>>.                                            *)
(***************************************************************************)
EXTENDS Integers, Sequences, FiniteSets, TLC

VARIABLES
    pc,           \* position of the running method
    text,         \* the recognized text (ocr_text / text)
    raw_name,     \* normalize_test_name: its argument
    ret,          \* the value the method under study returned
    line,         \* parse_result_line: its argument
    dates,        \* the date tokens (List[str])
    lines,        \* extract_test_results: the non-empty trimmed lines
    i,            \* extract_test_results: the scan index
    results,      \* the result mapping, in dict insertion order
    parsed,       \* indices of the lines handed to parse_result_line, in order
    template_df,  \* the caller's template
    df,           \* populate_template_with_results: the copy
    shared,       \* whether df's column labels share template_df's buffer
    todo,         \* populate_template_with_results: index of the next entry
    diag,         \* warnings printed so far
    debug_file,   \* contents of debug_ocr_output.txt
    out_file,     \* the CSV files written, in order
    log,          \* process_blood_test: the stages performed, in order
    orig          \* the template as the caller held it before the call

vars == <<pc, text, raw_name, ret, line, dates, lines, i, results, parsed,
          template_df, df, shared, todo, diag, debug_file, out_file, log, orig>>

None == <<>>
Some(v) == <<v>>

-----------------------------------------------------------------------------
(* Characters and the str methods the parser uses *)

\* the character at position n (from 1), "" past either end
Char(s, n) == IF 1 <= n /\ n <= Len(s) THEN SubSeq(s, n, n) ELSE ""

DigitChars == {"0", "1", "2", "3", "4", "5", "6", "7", "8", "9"}

UpperToLower ==
    "A" :> "a" @@ "B" :> "b" @@ "C" :> "c" @@ "D" :> "d" @@ "E" :> "e" @@
    "F" :> "f" @@ "G" :> "g" @@ "H" :> "h" @@ "I" :> "i" @@ "J" :> "j" @@
    "K" :> "k" @@ "L" :> "l" @@ "M" :> "m" @@ "N" :> "n" @@ "O" :> "o" @@
    "P" :> "p" @@ "Q" :> "q" @@ "R" :> "r" @@ "S" :> "s" @@ "T" :> "t" @@
    "U" :> "u" @@ "V" :> "v" @@ "W" :> "w" @@ "X" :> "x" @@ "Y" :> "y" @@
    "Z" :> "z"

UpperChars == DOMAIN UpperToLower

LowerChars == {UpperToLower[c] : c \in UpperChars}

\* \w of the re module
IsWordChar(c) == c \in DigitChars \/ c \in LowerChars \/ c \in UpperChars \/ c = "_"

\* \s of the re module, and what str.strip and str.split take for whitespace
IsSpaceChar(c) == c \in {" ", "\t", "\n", "\r"}

RECURSIVE StrLower(_)
StrLower(s) ==
    IF s = "" THEN ""
    ELSE (IF Char(s, 1) \in UpperChars THEN UpperToLower[Char(s, 1)] ELSE Char(s, 1))
         \o StrLower(SubSeq(s, 2, Len(s)))

RECURSIVE LStrip(_)
LStrip(s) ==
    IF s # "" /\ IsSpaceChar(Char(s, 1)) THEN LStrip(SubSeq(s, 2, Len(s))) ELSE s

RECURSIVE RStrip(_)
RStrip(s) ==
    IF s # "" /\ IsSpaceChar(Char(s, Len(s))) THEN RStrip(SubSeq(s, 1, Len(s) - 1)) ELSE s

StrStrip(s) == RStrip(LStrip(s))

\* sub in s
Contains(sub, s) ==
    \E n \in 1..(Len(s) - Len(sub) + 1) : SubSeq(s, n, n + Len(sub) - 1) = sub

StartsWith(s, prefix) == Len(prefix) <= Len(s) /\ SubSeq(s, 1, Len(prefix)) = prefix

\* the leading run of non-whitespace characters of s
RECURSIVE TakeWord(_)
TakeWord(s) ==
    IF s = "" \/ IsSpaceChar(Char(s, 1)) THEN ""
    ELSE Char(s, 1) \o TakeWord(SubSeq(s, 2, Len(s)))

\* str.split(): the maximal runs of non-whitespace characters
RECURSIVE StrSplit(_)
StrSplit(s) ==
    LET t == LStrip(s) IN
    IF t = "" THEN <<>>
    ELSE LET w == TakeWord(t) IN <<w>> \o StrSplit(SubSeq(t, Len(w) + 1, Len(t)))

\* ' '.join(parts)
RECURSIVE JoinSpace(_)
JoinSpace(parts) ==
    IF parts = <<>> THEN ""
    ELSE IF Len(parts) = 1 THEN parts[1]
    ELSE parts[1] \o " " \o JoinSpace(Tail(parts))

-----------------------------------------------------------------------------
(* normalize_test_name *)

\* self.test_name_mapping, in dict order
test_name_mapping == <<
    <<"sodium", "Sodium">>,
    <<"potassium", "Potassium">>,
    <<"chloride", "Chloride">>,
    <<"bicarbonate", "Bicarbonate">>,
    <<"urea", "Urea">>,
    <<"creatinine", "Creatinine">>,
    <<"egfr", "eGFR">>,
    <<"calcium", "Calcium">>,
    <<"corrected calcium", "Calcium">>,
    <<"corr calcium", "Calcium">>,
    <<"magnesium", "Magnesium">>,
    <<"phosphate", "Phosphate">>,
    <<"bilirubin total", "Bili.Total">>,
    <<"bili.total", "Bili.Total">>,
    <<"bili total", "Bili.Total">>,
    <<"alp", "ALP">>,
    <<"ggt", "GGT">>,
    <<"ld", "LD">>,
    <<"ast", "AST">>,
    <<"alt", "ALT">>,
    <<"total protein", "Total Protein">>,
    <<"totalprotein", "Total Protein">>,
    <<"albumin", "Albumin">>,
    <<"globulin", "Globulin">>,
    <<"cholesterol", "Cholesterol">>,
    <<"triglycerides", "Triglycerides">> >>

\* re.sub(r'[^\w\s]', '', s)
RECURSIVE RemovePunct(_)
RemovePunct(s) ==
    IF s = "" THEN ""
    ELSE (IF IsWordChar(Char(s, 1)) \/ IsSpaceChar(Char(s, 1)) THEN Char(s, 1) ELSE "")
         \o RemovePunct(SubSeq(s, 2, Len(s)))

\* re.sub(r'\s+', ' ', s)
RECURSIVE CollapseSpaces(_)
CollapseSpaces(s) ==
    IF s = "" THEN ""
    ELSE IF IsSpaceChar(Char(s, 1)) THEN " " \o CollapseSpaces(LStrip(s))
    ELSE Char(s, 1) \o CollapseSpaces(SubSeq(s, 2, Len(s)))

CleanName(raw) == CollapseSpaces(RemovePunct(StrStrip(StrLower(raw))))

\* the loop of the partial match: the first key, from index n on, that contains
\* the cleaned phrase or is contained in it
RECURSIVE PartialMatch(_, _)
PartialMatch(cleaned, n) ==
    IF n > Len(test_name_mapping) THEN None
    ELSE IF Contains(test_name_mapping[n][1], cleaned)
            \/ Contains(cleaned, test_name_mapping[n][1])
         THEN Some(test_name_mapping[n][2])
         ELSE PartialMatch(cleaned, n + 1)

ExactMatch(cleaned) ==
    IF \E n \in 1..Len(test_name_mapping) : test_name_mapping[n][1] = cleaned
    THEN Some(test_name_mapping[CHOOSE n \in 1..Len(test_name_mapping) :
                                    test_name_mapping[n][1] = cleaned][2])
    ELSE None

\* the partial match tried before the exact one
normalize_test_name_PartialFirst(raw) ==
    IF raw = None \/ raw = Some("") THEN None
    ELSE PartialMatch(CleanName(raw[1]), 1)

\* raw is None or <<phrase>>
normalize_test_name(raw) ==
    IF raw = None \/ raw = Some("") THEN None
    ELSE LET cleaned == CleanName(raw[1]) IN
         IF ExactMatch(cleaned) # None THEN ExactMatch(cleaned)
         ELSE PartialMatch(cleaned, 1)

-----------------------------------------------------------------------------
(* parse_dates_from_text *)

MaxDateColumns == 6

\* \b between characters n and n+1 of s (0 <= n <= Len(s))
WordBoundary(s, n) ==
    LET before == n >= 1 /\ IsWordChar(Char(s, n))
        after == n < Len(s) /\ IsWordChar(Char(s, n + 1))
    IN before # after

\* \d{k} from position p
DigitsAt(s, p, k) ==
    p + k - 1 <= Len(s) /\ \A j \in p..(p + k - 1) : Char(s, j) \in DigitChars

\* A date pattern \b\d{..}/\d{..}/\d{..}\b is the <<min, max>> counts of its
\* three digit groups.
date_patterns == <<
    << <<2, 2>>, <<2, 2>>, <<2, 2>> >>,
    << <<2, 2>>, <<2, 2>>, <<4, 4>> >>,
    << <<1, 2>>, <<1, 2>>, <<2, 4>> >> >>

\* the pattern with group widths w matches s from position p
MatchesWidths(s, p, w) ==
    /\ WordBoundary(s, p - 1)
    /\ DigitsAt(s, p, w[1])
    /\ Char(s, p + w[1]) = "/"
    /\ DigitsAt(s, p + w[1] + 1, w[2])
    /\ Char(s, p + w[1] + w[2] + 1) = "/"
    /\ DigitsAt(s, p + w[1] + w[2] + 2, w[3])
    /\ WordBoundary(s, p + w[1] + w[2] + w[3] + 1)

\* the backtracking matcher tries the greedy (widest) count of each group first
TriedBefore(w, v) ==
    \/ w[1] > v[1]
    \/ w[1] = v[1] /\ w[2] > v[2]
    \/ w[1] = v[1] /\ w[2] = v[2] /\ w[3] >= v[3]

\* length of the match of pat at position p of s, 0 when there is none
MatchAt(pat, s, p) ==
    LET ok == {w \in (pat[1][1]..pat[1][2]) \X (pat[2][1]..pat[2][2])
                      \X (pat[3][1]..pat[3][2]) : MatchesWidths(s, p, w)}
    IN \* every alternative starts \b\d: nothing matches where that fails
       IF Char(s, p) \notin DigitChars \/ ~WordBoundary(s, p - 1) THEN 0
       ELSE IF ok = {} THEN 0
       ELSE LET w == CHOOSE w \in ok : \A v \in ok : TriedBefore(w, v)
            IN w[1] + w[2] + w[3] + 2

\* re.findall(pat, s): the non-overlapping matches, each the leftmost one at or
\* after position p, the scan going on behind it
RECURSIVE FindAll(_, _, _)
FindAll(pat, s, p) ==
    LET starts == {n \in p..Len(s) : MatchAt(pat, s, n) > 0} IN
    IF starts = {} THEN <<>>
    ELSE LET n == CHOOSE n \in starts : \A m \in starts : n <= m
             e == n + MatchAt(pat, s, n)
         IN <<SubSeq(s, n, e - 1)>> \o FindAll(pat, s, e)

InSeq(x, seq) == \E n \in 1..Len(seq) : seq[n] = x

\* the loop of lines 68-70 without its test: every match is kept
UniqueDates_KeepRepeats(all_dates, unique_dates) == unique_dates \o all_dates

RECURSIVE UniqueDates(_, _)
UniqueDates(all_dates, unique_dates) ==
    IF all_dates = <<>> THEN unique_dates
    ELSE UniqueDates(Tail(all_dates),
                     IF InSeq(all_dates[1], unique_dates) THEN unique_dates
                     ELSE Append(unique_dates, all_dates[1]))

\* seq[:n]
Prefix(seq, n) == SubSeq(seq, 1, IF Len(seq) < n THEN Len(seq) ELSE n)

AllDates(s) ==
    FindAll(date_patterns[1], s, 1) \o FindAll(date_patterns[2], s, 1)
        \o FindAll(date_patterns[3], s, 1)

parse_dates_from_text(s) == Prefix(UniqueDates(AllDates(s), <<>>), MaxDateColumns)

-----------------------------------------------------------------------------
(* parse_result_line *)

MinLineLength == 5

MinParts == 2

RECURSIVE LeadingDigits(_)
LeadingDigits(s) ==
    IF s # "" /\ Char(s, 1) \in DigitChars THEN 1 + LeadingDigits(SubSeq(s, 2, Len(s)))
    ELSE 0

\* \d+\.?\d*$
NumberShape(s) ==
    LET k == LeadingDigits(s)
        rest == SubSeq(s, k + 1, Len(s))
    IN /\ k >= 1
       /\ \/ rest = ""
          \/ /\ Char(rest, 1) = "."
             /\ LeadingDigits(SubSeq(rest, 2, Len(rest))) = Len(rest) - 1

\* re.match(r'^[HL]?\d+\.?\d*$|^[<>]\d+\.?\d*$', part)
IsValueToken(part) ==
    \/ NumberShape(part)
    \/ part # "" /\ Char(part, 1) \in {"H", "L"} /\ NumberShape(SubSeq(part, 2, Len(part)))
    \/ part # "" /\ Char(part, 1) \in {"<", ">"} /\ NumberShape(SubSeq(part, 2, Len(part)))

UnknownMarkers == {"Unkn", "Unknown", ""}

\* index (from 1) of the first value-shaped part from n on, 0 when there is none
RECURSIVE ValueStart(_, _)
ValueStart(parts, n) ==
    IF n > Len(parts) THEN 0
    ELSE IF IsValueToken(parts[n]) THEN n
    ELSE ValueStart(parts, n + 1)

\* values[k] = v on a dict
DictSet(d, k, v) == [x \in DOMAIN d \cup {k} |-> IF x = k THEN v ELSE d[x]]

EmptyDict == [x \in {} |-> ""]

\* the loop with a date counter of its own, moved on only when a value is stored
RECURSIVE ValuesLoop_Dense(_, _, _, _)
ValuesLoop_Dense(value_parts, ds, n, values) ==
    IF n > Len(value_parts) \/ Cardinality(DOMAIN values) >= Len(ds) THEN values
    ELSE ValuesLoop_Dense(value_parts, ds, n + 1,
             IF IsValueToken(value_parts[n])
             THEN DictSet(values, ds[Cardinality(DOMAIN values) + 1], value_parts[n])
             ELSE IF value_parts[n] \in UnknownMarkers
             THEN DictSet(values, ds[Cardinality(DOMAIN values) + 1], "")
             ELSE values)

\* the loop over enumerate(value_parts), from index n (from 1) on
RECURSIVE ValuesLoop(_, _, _, _)
ValuesLoop(value_parts, ds, n, values) ==
    IF n > Len(value_parts) \/ n > Len(ds) THEN values
    ELSE ValuesLoop(value_parts, ds, n + 1,
             IF IsValueToken(value_parts[n]) THEN DictSet(values, ds[n], value_parts[n])
             ELSE IF value_parts[n] \in UnknownMarkers THEN DictSet(values, ds[n], "")
             ELSE values)

\* len(line) <= 5 in place of len(line) < 5
LineTooShort_Inclusive(ln) == ln = "" \/ Len(ln) <= MinLineLength

\* not line or len(line) < 5
LineTooShort(ln) == ln = "" \/ Len(ln) < MinLineLength

parse_result_line(ln, ds) ==
    IF LineTooShort(ln) THEN None
    ELSE LET parts == StrSplit(ln) IN
         IF Len(parts) < MinParts THEN None
         ELSE LET value_start_idx == ValueStart(parts, 1) IN
              IF value_start_idx = 0 THEN None
              ELSE LET test_name ==
                           normalize_test_name(
                               Some(JoinSpace(SubSeq(parts, 1, value_start_idx - 1))))
                   IN IF test_name = None THEN None
                      ELSE Some([name |-> test_name[1],
                                 values |-> ValuesLoop(
                                     SubSeq(parts, value_start_idx, Len(parts)),
                                     ds, 1, EmptyDict)])

-----------------------------------------------------------------------------
(* State left alone by the method under study *)

EmptyFrame == [columns |-> <<>>, rows |-> <<>>]

lineVars == <<raw_name, line>>
scanVars == <<lines, i, parsed>>
frameVars == <<template_df, df, shared, todo, diag, orig>>
fileVars == <<debug_file, out_file, log>>

IdleLine == raw_name = None /\ line = ""
IdleScan == lines = <<>> /\ i = 0 /\ parsed = <<>>
IdleFrame == template_df = EmptyFrame /\ df = EmptyFrame /\ shared = FALSE
             /\ todo = 0 /\ diag = <<>> /\ orig = EmptyFrame
IdleFiles == debug_file = None /\ out_file = <<>> /\ log = <<>>

-----------------------------------------------------------------------------
(* normalize_test_name on its own *)

NamePrefixes == {"", " ", "-", ". ", "("}
NameCores == {"", "Corr Calcium", "SODIUM", "xyz-unknown-test", "totalprotein",
              "Total  Protein", "ld", "Bili.Total", "T", "Serum ALT level", "\t"}
NameSuffixes == {"", ":", " )"}

RawNames ==
    {None} \cup {Some(a \o b \o c) : a \in NamePrefixes, b \in NameCores, c \in NameSuffixes}

InitNorm ==
    /\ pc = "normalize"
    /\ raw_name \in RawNames
    /\ line = ""
    /\ ret = None
    /\ text = "" /\ dates = <<>> /\ results = <<>>
    /\ IdleScan /\ IdleFrame /\ IdleFiles

Normalize ==
    /\ pc = "normalize"
    /\ ret' = normalize_test_name(raw_name)
    /\ pc' = "done"
    /\ UNCHANGED <<text, dates, results, lineVars, scanVars, frameVars, fileVars>>

NextNorm == Normalize

SpecNorm == InitNorm /\ [][NextNorm]_vars

-----------------------------------------------------------------------------
(* parse_dates_from_text on its own *)

MaxChunks == 3

DateChunks == {"01/02/23 ", "05/03/23\n", "1/2/2023 ", "x", "4",
               "07/04/2023 08/05/23 ", "10/07/23 11/08/23 12/09/23 13/10/23 "}

RECURSIVE TextsOfChunks(_)
TextsOfChunks(n) ==
    IF n = 0 THEN {""}
    ELSE {""} \cup {c \o t : c \in DateChunks, t \in TextsOfChunks(n - 1)}

InitDates ==
    /\ pc = "parse_dates"
    /\ text \in TextsOfChunks(MaxChunks)
    /\ dates = <<>>
    /\ ret = None /\ results = <<>>
    /\ IdleLine /\ IdleScan /\ IdleFrame /\ IdleFiles

ParseDates ==
    /\ pc = "parse_dates"
    /\ dates' = parse_dates_from_text(text)
    /\ pc' = "done"
    /\ UNCHANGED <<text, ret, results, lineVars, scanVars, frameVars, fileVars>>

NextDates == ParseDates

SpecDates == InitDates /\ [][NextDates]_vars

-----------------------------------------------------------------------------
(* parse_result_line on its own, with the merge its caller makes of the record *)

MaxTokens == 4

MaxDates == 3

KnownDates == <<"01/02/23", "05/03/23", "07/04/23", "09/05/23", "11/06/23", "13/07/23">>

\* the empty token puts a second blank between two tokens, or one before the first
LineTokens == {"", "ld", "--", "xyz", "7", "H4", "Unkn"}

RECURSIVE TokenSeqs(_)
TokenSeqs(n) ==
    IF n = 0 THEN {<<>>}
    ELSE {<<>>} \cup {<<t>> \o ts : t \in LineTokens, ts \in TokenSeqs(n - 1)}

LineInputs == {JoinSpace(ts) : ts \in TokenSeqs(MaxTokens)}

\* the mapping extract_test_results holds when the line is reached
PriorResults == << <<"LD", ("01/02/23" :> "9")>> >>

\* results[test_name] = values on a dict kept in insertion order
RECURSIVE ResultsSet(_, _, _)
ResultsSet(res, test_name, values) ==
    IF res = <<>> THEN << <<test_name, values>> >>
    ELSE IF res[1][1] = test_name THEN << <<test_name, values>> >> \o Tail(res)
    ELSE <<res[1]>> \o ResultsSet(Tail(res), test_name, values)

\* what extract_test_results does with the value parse_result_line returned
MergeTestData(res, test_data) ==
    IF test_data # None /\ test_data[1].name # ""
    THEN ResultsSet(res, test_data[1].name, test_data[1].values)
    ELSE res

InitLine ==
    /\ pc = "parse_line"
    /\ line \in LineInputs
    /\ dates \in {SubSeq(KnownDates, 1, n) : n \in 1..MaxDates}
    /\ results = PriorResults
    /\ ret = None /\ raw_name = None /\ text = ""
    /\ IdleScan /\ IdleFrame /\ IdleFiles

ParseLine ==
    /\ pc = "parse_line"
    /\ ret' = parse_result_line(line, dates)
    /\ pc' = "merge"
    /\ UNCHANGED <<text, dates, results, lineVars, scanVars, frameVars, fileVars>>

MergeLine ==
    /\ pc = "merge"
    /\ results' = MergeTestData(results, ret)
    /\ pc' = "done"
    /\ UNCHANGED <<text, dates, ret, lineVars, scanVars, frameVars, fileVars>>

NextLine == ParseLine \/ MergeLine

SpecLine == InitLine /\ [][NextLine]_vars

-----------------------------------------------------------------------------
(* extract_test_results *)

HeaderSkip == 3

MinHeaderDates == 2

\* s up to its first line break, and what follows the break
RECURSIVE FirstLine(_)
FirstLine(s) ==
    IF s = "" \/ Char(s, 1) = "\n" THEN ""
    ELSE Char(s, 1) \o FirstLine(SubSeq(s, 2, Len(s)))

\* [line.strip() for line in text.splitlines() if line.strip()]
RECURSIVE TrimmedLines(_)
TrimmedLines(s) ==
    IF s = "" THEN <<>>
    ELSE LET first == FirstLine(s)
             rest == SubSeq(s, Len(first) + 2, Len(s))
         IN (IF StrStrip(first) # "" THEN <<StrStrip(first)>> ELSE <<>>)
            \o TrimmedLines(rest)

\* sum(1 for date in dates if date in line)
DateCount(ln, ds) == Cardinality({n \in 1..Len(ds) : Contains(ds[n], ln)})

\* the search with one more line skipped after the header
RECURSIVE DataStart_SkipFour(_, _, _)
DataStart_SkipFour(lns, ds, n) ==
    IF n >= Len(lns) THEN 0
    ELSE IF DateCount(lns[n + 1], ds) >= MinHeaderDates THEN n + HeaderSkip + 1
    ELSE DataStart_SkipFour(lns, ds, n + 1)

\* the search for the header line from index n (from 0) on: data_start_idx
RECURSIVE DataStart(_, _, _)
DataStart(lns, ds, n) ==
    IF n >= Len(lns) THEN 0
    ELSE IF DateCount(lns[n + 1], ds) >= MinHeaderDates THEN n + HeaderSkip
    ELSE DataStart(lns, ds, n + 1)

\* the stop test on the line as it is, without lower()
IsStopLine_CaseSensitive(ln) ==
    \/ StartsWith(ln, "comment")
    \/ StartsWith(ln, "end")
    \/ Contains("www.", ln)

IsStopLine(ln) ==
    \/ StartsWith(StrLower(ln), "comment")
    \/ StartsWith(StrLower(ln), "end")
    \/ Contains("www.", StrLower(ln))

\* the while loop from index n (from 0) on, to its end
RECURSIVE ScanFrom(_, _, _, _)
ScanFrom(lns, ds, n, res) ==
    IF n >= Len(lns) \/ IsStopLine(StrStrip(lns[n + 1])) THEN res
    ELSE ScanFrom(lns, ds, n + 1,
                  MergeTestData(res, parse_result_line(StrStrip(lns[n + 1]), ds)))

extract_test_results(s, ds) ==
    LET lns == TrimmedLines(s) IN ScanFrom(lns, ds, DataStart(lns, ds, 0), <<>>)

MaxLines == 4

\* the dates of the header line of ReportLines
ReportDates == <<"01/02/23", "05/03/23">>

ReportLines == {"Test 01/02/23 05/03/23\n", "Sodium 140 H142\n\n", "  ld 55 Unkn \n",
                "Comments: none of the above\n", "see www.lab.com 7\n", "End of report\n"}

RECURSIVE TextsOfLines(_)
TextsOfLines(n) ==
    IF n = 0 THEN {""}
    ELSE {""} \cup {l \o t : l \in ReportLines, t \in TextsOfLines(n - 1)}

InitExtract ==
    /\ pc = "extract"
    /\ text \in TextsOfLines(MaxLines)
    /\ dates = ReportDates
    /\ results = <<>>
    /\ ret = None
    /\ IdleLine /\ IdleScan /\ IdleFrame /\ IdleFiles

\* lines 97-110: the lines, the empty mapping, the start of the data section
ExtractBegin ==
    /\ pc = "extract"
    /\ lines' = TrimmedLines(text)
    /\ results' = <<>>
    /\ i' = DataStart(lines', dates, 0)
    /\ pc' = "scan"
    /\ UNCHANGED <<text, dates, ret, parsed, lineVars, frameVars, fileVars>>

\* one turn of the while loop that reaches line 121
ScanLine ==
    /\ pc = "scan"
    /\ i < Len(lines)
    /\ ~IsStopLine(StrStrip(lines[i + 1]))
    /\ parsed' = Append(parsed, i)
    /\ results' = MergeTestData(results, parse_result_line(StrStrip(lines[i + 1]), dates))
    /\ i' = i + 1
    /\ UNCHANGED <<pc, text, dates, ret, lines, lineVars, frameVars, fileVars>>

\* the break at line 118, then the return
ScanStop ==
    /\ pc = "scan"
    /\ i < Len(lines)
    /\ IsStopLine(StrStrip(lines[i + 1]))
    /\ ret' = Some(results)
    /\ pc' = "done"
    /\ UNCHANGED <<text, dates, results, lines, i, parsed, lineVars, frameVars, fileVars>>

\* the loop condition fails, then the return
ScanEnd ==
    /\ pc = "scan"
    /\ i >= Len(lines)
    /\ ret' = Some(results)
    /\ pc' = "done"
    /\ UNCHANGED <<text, dates, results, lines, i, parsed, lineVars, frameVars, fileVars>>

NextExtract == ExtractBegin \/ ScanLine \/ ScanStop \/ ScanEnd

SpecExtract == InitExtract /\ [][NextExtract]_vars

-----------------------------------------------------------------------------
(* populate_template_with_results *)

\* A frame is its column labels and its rows, each row the cells of the columns
\* in order; the row index is 0, 1, ... as read_excel leaves it.

FirstDateColumn == 2

\* a missing (NaN) cell of the Test column
NaN == "\n"

\* re.search(pat, s, re.IGNORECASE) for the patterns the test names are: '.'
\* stands for any character but a line break, every other character for itself
RegexMatchAt(pat, s, p) ==
    /\ p + Len(pat) - 1 <= Len(s)
    /\ \A n \in 1..Len(pat) :
          IF Char(pat, n) = "." THEN Char(s, p + n - 1) # "\n"
          ELSE StrLower(Char(pat, n)) = StrLower(Char(s, p + n - 1))

RegexSearch(pat, s) == \E p \in 1..(Len(s) + 1) : RegexMatchAt(pat, s, p)

\* position (from 1) of the column labelled label
ColumnOf(frame, label) ==
    CHOOSE n \in 1..Len(frame.columns) :
        /\ frame.columns[n] = label
        /\ \A m \in 1..(n - 1) : frame.columns[m] # label

\* df[df['Test'].str.contains(test_name, case=False, na=False)].index, from 0
MatchingRows(frame, test_name) ==
    {r \in 0..(Len(frame.rows) - 1) :
        LET cell == frame.rows[r + 1][ColumnOf(frame, "Test")] IN
        cell # NaN /\ RegexSearch(test_name, cell)}

MinOf(S) == CHOOSE n \in S : \A m \in S : n <= m

\* dates.index(date), from 0
DateIndex(ds, date) == MinOf({n \in 1..Len(ds) : ds[n] = date}) - 1

\* the loop of lines 198-200 over the label buffer
Relabelled(columns, ds) ==
    [n \in 1..Len(columns) |->
        IF n > FirstDateColumn /\ n - FirstDateColumn <= Len(ds)
        THEN ds[n - FirstDateColumn] ELSE columns[n]]

\* the loop of lines 215-219 for one entry whose row is row_idx (from 0): the
\* value of a date of ds goes to column 2 + its index when the frame has that
\* column; the dates of one entry write to different cells
WriteValues(frame, row_idx, test_values, ds) ==
    [frame EXCEPT !.rows[row_idx + 1] =
        [c \in 1..Len(frame.columns) |->
            IF \E date \in DOMAIN test_values :
                   /\ InSeq(date, ds)
                   /\ FirstDateColumn + DateIndex(ds, date) = c - 1
            THEN test_values[CHOOSE date \in DOMAIN test_values :
                                 /\ InSeq(date, ds)
                                 /\ FirstDateColumn + DateIndex(ds, date) = c - 1]
            ELSE frame.rows[row_idx + 1][c]]]

\* one turn of the loop of line 203
PopulateOne(frame, entry, ds) ==
    IF MatchingRows(frame, entry[1]) = {} THEN frame
    ELSE WriteValues(frame, MinOf(MatchingRows(frame, entry[1])), entry[2], ds)

RECURSIVE PopulateFrom(_, _, _, _)
PopulateFrom(frame, res, n, ds) ==
    IF n > Len(res) THEN frame
    ELSE PopulateFrom(PopulateOne(frame, res[n], ds), res, n + 1, ds)

RECURSIVE WarningsFrom(_, _, _)
WarningsFrom(frame, res, n) ==
    IF n > Len(res) THEN <<>>
    ELSE (IF MatchingRows(frame, res[n][1]) = {} THEN <<res[n][1]>> ELSE <<>>)
         \o WarningsFrom(frame, res, n + 1)

\* the frame populate_template_with_results returns
populate_template_with_results(frame, res, ds) ==
    PopulateFrom([frame EXCEPT !.columns = Relabelled(frame.columns, ds)], res, 1, ds)

MaxRows == 2

MaxEntries == 2

TemplateTests == {"Sodium", "Urine sodium", "Bili Total", NaN}

TemplateLabels == <<"Test", "Unit", "Date 1", "Date 2", "Date 3", "Date 4", "Date 5", "Date 6">>

TemplateWidths == {3, 4}

RECURSIVE TestColumns(_)
TestColumns(n) ==
    IF n = 0 THEN {<<>>}
    ELSE {<<>>} \cup {<<t>> \o ts : t \in TemplateTests, ts \in TestColumns(n - 1)}

TemplateRow(test, width) ==
    [c \in 1..width |-> IF c = 1 THEN test ELSE IF c = 2 THEN "mmol/L" ELSE ""]

TemplateOf(ts, w) ==
    [columns |-> SubSeq(TemplateLabels, 1, w),
     rows |-> [r \in 1..Len(ts) |-> TemplateRow(ts[r], w)]]

Templates ==
    {TemplateOf(ts, w) : ts \in TestColumns(MaxRows) \ {<<>>}, w \in TemplateWidths}

ResultEntries == {
    <<"Sodium", ("01/02/23" :> "140" @@ "05/03/23" :> "H142")>>,
    <<"Sodium", ("07/04/23" :> "<5")>>,
    <<"Bili.Total", ("01/02/23" :> "12")>> }

RECURSIVE ResultSeqs(_)
ResultSeqs(n) ==
    IF n = 0 THEN {<<>>}
    ELSE {<<>>} \cup {<<e>> \o es : e \in ResultEntries, es \in ResultSeqs(n - 1)}

\* the keys of a dict are different
ResultMappings ==
    {res \in ResultSeqs(MaxEntries) :
        \A m, n \in 1..Len(res) : m # n => res[m][1] # res[n][1]}

InitPopulate ==
    /\ pc = "populate"
    /\ template_df \in Templates
    /\ orig = template_df
    /\ results \in ResultMappings
    /\ dates \in {SubSeq(KnownDates, 1, n) : n \in 1..MaxDates}
    /\ df = EmptyFrame /\ shared = FALSE /\ todo = 0 /\ diag = <<>>
    /\ ret = None /\ text = ""
    /\ IdleLine /\ IdleScan /\ IdleFiles

\* line 194: the copy holds its own cells; its column labels are a view of the
\* template's, which shares the label buffer or not with the pandas in use
PopulateCopy ==
    /\ pc = "populate"
    /\ df' = template_df
    /\ shared' \in BOOLEAN
    /\ pc' = "relabel"
    /\ UNCHANGED <<text, dates, ret, results, template_df, todo, diag, orig,
                   lineVars, scanVars, fileVars>>

\* lines 197-200: the labels are written into the buffer of df.columns
PopulateRelabel ==
    /\ pc = "relabel"
    /\ df' = [df EXCEPT !.columns = Relabelled(df.columns, dates)]
    /\ template_df' = IF shared
                      THEN [template_df EXCEPT !.columns = Relabelled(df.columns, dates)]
                      ELSE template_df
    /\ todo' = 1
    /\ pc' = "entries"
    /\ UNCHANGED <<text, dates, ret, results, shared, diag, orig,
                   lineVars, scanVars, fileVars>>

\* a turn of the loop of line 203 for a test the template holds
PopulateEntry ==
    /\ pc = "entries"
    /\ todo <= Len(results)
    /\ MatchingRows(df, results[todo][1]) # {}
    /\ df' = PopulateOne(df, results[todo], dates)
    /\ todo' = todo + 1
    /\ UNCHANGED <<pc, text, dates, ret, results, template_df, shared, diag, orig,
                   lineVars, scanVars, fileVars>>

\* a turn of the loop of line 203 for a test the template does not hold
PopulateMissing ==
    /\ pc = "entries"
    /\ todo <= Len(results)
    /\ MatchingRows(df, results[todo][1]) = {}
    /\ diag' = Append(diag, results[todo][1])
    /\ todo' = todo + 1
    /\ UNCHANGED <<pc, text, dates, ret, results, template_df, df, shared, orig,
                   lineVars, scanVars, fileVars>>

PopulateReturn ==
    /\ pc = "entries"
    /\ todo > Len(results)
    /\ ret' = Some(df)
    /\ pc' = "done"
    /\ UNCHANGED <<text, dates, results, template_df, df, shared, todo, diag, orig,
                   lineVars, scanVars, fileVars>>

NextPopulate ==
    PopulateCopy \/ PopulateRelabel \/ PopulateEntry \/ PopulateMissing \/ PopulateReturn

SpecPopulate == InitPopulate /\ [][NextPopulate]_vars

-----------------------------------------------------------------------------
(* process_blood_test *)

\* what pytesseract may return for the image
OcrTexts == {
    "Test 01/02/23 05/03/23\nUnits\nRange\nSodium 140 H142\nBili Total 12 13\nComments: none\n",
    "Dates 01/02/23 05/03/23\n--\n--\nld 55 Unkn\n-- 7 8\nwww.lab.com\n",
    "Report 01/02/23\nSodium 140\n",
    "Lab 01/02/2023 05/03/2023 07/04/2023\nA\nB\nSodium 1 x 3\nBili.Total <5\nEnd\n",
    "Sodium 140 H142\n",
    "" }

\* what read_excel may return for the template
LoadedTemplates == {
    TemplateOf(<<"Sodium", "Bili.Total", "LD">>, 8),
    TemplateOf(<<"Urine sodium", "Sodium", NaN, "Bili Total">>, 4),
    TemplateOf(<<"Sodium">>, 3),
    TemplateOf(<<"Potassium">>, 4) }

InitProcess ==
    /\ pc = "ocr"
    /\ text = "" /\ dates = <<>> /\ results = <<>> /\ ret = None
    /\ IdleLine /\ IdleScan /\ IdleFrame /\ IdleFiles

\* line 229
ProcessOcr ==
    /\ pc = "ocr"
    /\ text' \in OcrTexts
    /\ log' = Append(log, "ocr")
    /\ pc' = "debug"
    /\ UNCHANGED <<dates, ret, results, debug_file, out_file, lineVars, scanVars, frameVars>>

\* line 229: the image cannot be opened or read
ProcessOcrRaises ==
    /\ pc = "ocr"
    /\ pc' = "raised"
    /\ UNCHANGED <<text, dates, ret, results, lineVars, scanVars, frameVars, fileVars>>

\* lines 232-233
ProcessDebug ==
    /\ pc = "debug"
    /\ debug_file' = Some(text)
    /\ log' = Append(log, "debug")
    /\ pc' = "dates"
    /\ UNCHANGED <<text, dates, ret, results, out_file, lineVars, scanVars, frameVars>>

\* line 238
ProcessDates ==
    /\ pc = "dates"
    /\ dates' = parse_dates_from_text(text)
    /\ log' = Append(log, "dates")
    /\ pc' = "check_dates"
    /\ UNCHANGED <<text, ret, results, debug_file, out_file, lineVars, scanVars, frameVars>>

\* the run going on to the next stage without the test of line 241
ProcessNoDates_GoesOn ==
    /\ pc = "check_dates"
    /\ dates = <<>>
    /\ results' = extract_test_results(text, dates)
    /\ log' = Append(log, "extract")
    /\ pc' = "load"
    /\ UNCHANGED <<text, dates, ret, debug_file, out_file, lineVars, scanVars, frameVars>>

\* lines 241-243
ProcessNoDates ==
    /\ pc = "check_dates"
    /\ dates = <<>>
    /\ diag' = Append(diag, "No dates found in OCR text!")
    /\ ret' = None
    /\ pc' = "done"
    /\ UNCHANGED <<text, dates, results, template_df, df, shared, todo, orig,
                   lineVars, scanVars, fileVars>>

\* line 247
ProcessExtract ==
    /\ pc = "check_dates"
    /\ dates # <<>>
    /\ results' = extract_test_results(text, dates)
    /\ log' = Append(log, "extract")
    /\ pc' = "load"
    /\ UNCHANGED <<text, dates, ret, debug_file, out_file, lineVars, scanVars, frameVars>>

\* line 256
ProcessLoad ==
    /\ pc = "load"
    /\ template_df' \in LoadedTemplates
    /\ orig' = template_df'
    /\ log' = Append(log, "load")
    /\ pc' = "populate"
    /\ UNCHANGED <<text, dates, ret, results, df, shared, todo, diag, debug_file, out_file,
                   lineVars, scanVars>>

\* line 256: the workbook or its sheet is missing
ProcessLoadRaises ==
    /\ pc = "load"
    /\ pc' = "raised"
    /\ UNCHANGED <<text, dates, ret, results, lineVars, scanVars, frameVars, fileVars>>

\* line 261
ProcessPopulate ==
    /\ pc = "populate"
    /\ df' = populate_template_with_results(template_df, results, dates)
    /\ shared' \in BOOLEAN
    /\ template_df' = IF shared'
                      THEN [template_df EXCEPT
                                !.columns = Relabelled(template_df.columns, dates)]
                      ELSE template_df
    /\ diag' = diag \o WarningsFrom(template_df, results, 1)
    /\ todo' = Len(results) + 1
    /\ log' = Append(log, "populate")
    /\ pc' = "save"
    /\ UNCHANGED <<text, dates, ret, results, orig, debug_file, out_file, lineVars, scanVars>>

\* line 265
ProcessSave ==
    /\ pc = "save"
    /\ out_file' = Append(out_file, df)
    /\ log' = Append(log, "save")
    /\ pc' = "return"
    /\ UNCHANGED <<text, dates, ret, results, debug_file, lineVars, scanVars, frameVars>>

\* line 270
ProcessReturn ==
    /\ pc = "return"
    /\ ret' = Some(df)
    /\ pc' = "done"
    /\ UNCHANGED <<text, dates, results, lineVars, scanVars, frameVars, fileVars>>

NextProcess ==
    \/ ProcessOcr \/ ProcessOcrRaises \/ ProcessDebug \/ ProcessDates \/ ProcessNoDates
    \/ ProcessExtract \/ ProcessLoad \/ ProcessLoadRaises \/ ProcessPopulate
    \/ ProcessSave \/ ProcessReturn

SpecProcess == InitProcess /\ [][NextProcess]_vars

-----------------------------------------------------------------------------
(* Properties *)

Elements(seq) == {seq[n] : n \in 1..Len(seq)}

FirstIndex(seq, x) == MinOf({n \in 1..Len(seq) : seq[n] = x})

KeyIndexes(c) == {n \in 1..Len(test_name_mapping) : test_name_mapping[n][1] = c}

PartialIndexes(c) ==
    {n \in 1..Len(test_name_mapping) :
        \/ Contains(test_name_mapping[n][1], c)
        \/ Contains(c, test_name_mapping[n][1])}

\* the canonical name the vocabulary gives the cleaned phrase c
TableName(c) ==
    IF KeyIndexes(c) # {} THEN Some(test_name_mapping[MinOf(KeyIndexes(c))][2])
    ELSE IF PartialIndexes(c) # {} THEN Some(test_name_mapping[MinOf(PartialIndexes(c))][2])
    ELSE None

NameExamples ==
    /\ raw_name = Some("Corr Calcium") => ret = Some("Calcium")
    /\ raw_name = Some("SODIUM") => ret = Some("Sodium")
    /\ raw_name = Some("xyz-unknown-test") => ret = None

\* C5 as stated: every raw phrase maps to the vocabulary's value for its cleaned
\* form c when c is a key, otherwise to the value of the first key in table order
\* that contains c or is contained in c, otherwise to no name.
C5_EveryPhraseByTable ==
    pc = "done" /\ raw_name # None =>
        ret = TableName(CleanName(raw_name[1])) /\ NameExamples

\* C5 as amended: the same for every non-empty raw phrase, while the empty phrase
\* (and no phrase at all) maps to no name.
C5_NonEmptyPhraseByTable ==
    pc = "done" =>
        /\ raw_name \in {None, Some("")} => ret = None
        /\ raw_name \notin {None, Some("")} => ret = TableName(CleanName(raw_name[1]))
        /\ NameExamples

\* an exact key that an earlier key of the table is part of
C5_Witness ==
    /\ pc = "done"
    /\ raw_name = Some("totalprotein")
    /\ ret = Some("Total Protein")
    /\ MinOf(PartialIndexes("totalprotein")) < MinOf(KeyIndexes("totalprotein"))

\* C10: a phrase that is null, empty, or empty once cleaned yields no canonical
\* name.
C10_EmptyCleanedYieldsNone ==
    pc = "done" /\ (raw_name = None \/ CleanName(raw_name[1]) = "") => ret = None

\* C4: the dates are the first 6 of the matches of the three patterns, taken in
\* pattern order, without the repeats: no token twice, no more than 6, only
\* tokens of the text, none when no pattern matches.
C4_DatesAreFirstSixUnique ==
    pc = "done" =>
        LET all == AllDates(text) IN
        /\ Len(dates) = (IF Cardinality(Elements(all)) < 6
                         THEN Cardinality(Elements(all)) ELSE 6)
        /\ \A n \in 1..Len(dates) : dates[n] \in Elements(all) /\ Contains(dates[n], text)
        /\ \A m, n \in 1..Len(dates) : m # n => dates[m] # dates[n]
        /\ \A m, n \in 1..Len(dates) :
              m < n => FirstIndex(all, dates[m]) < FirstIndex(all, dates[n])
        /\ \A x \in Elements(all) \ Elements(dates) :
              \A n \in 1..Len(dates) : FirstIndex(all, dates[n]) < FirstIndex(all, x)
        /\ (\A k \in 1..3 : \A p \in 1..Len(text) : MatchAt(date_patterns[k], text, p) = 0)
              => dates = <<>>
        /\ text = "01/02/23 05/03/23\n01/02/23 " => dates = <<"01/02/23", "05/03/23">>

\* more than 6 different dates, matches met again by a later pattern, and a date
\* of the second pattern put behind a later date of the first
C4_Witness ==
    /\ pc = "done"
    /\ Len(dates) = 6
    /\ Cardinality(Elements(AllDates(text))) > 6
    /\ Len(AllDates(text)) > Cardinality(Elements(AllDates(text)))
    /\ \E m, n \in 1..Len(dates) :
          m < n /\ dates[m] = "08/05/23" /\ dates[n] = "07/04/2023"

LineParts == StrSplit(line)

ValueIndexes == {n \in 1..Len(LineParts) : IsValueToken(LineParts[n])}

\* the tokens from the first value-shaped one on
ValueRegion == SubSeq(LineParts, MinOf(ValueIndexes), Len(LineParts))

IsSlotToken(t) == IsValueToken(t) \/ t \in {"Unkn", "Unknown"}

StoredFor(t) == IF t \in {"Unkn", "Unknown"} THEN "" ELSE t

\* C1 as stated: the k-th value-shaped or unknown token of the value region is
\* stored under the k-th date; a token of another shape takes no date.
C1_OrdinalPairing ==
    pc \in {"merge", "done"} /\ ret # None =>
        LET slots == SelectSeq(ValueRegion, IsSlotToken) IN
        \A k \in 1..Len(dates) :
            k <= Len(slots) =>
                /\ dates[k] \in DOMAIN ret[1].values
                /\ ret[1].values[dates[k]] = StoredFor(slots[k])

\* C1 as amended: the token at position k of the value region, every token
\* counted, is stored under the k-th date when it is value-shaped or an unknown
\* marker; a token of another shape leaves the k-th date without a value.
C1_PositionalPairing ==
    pc \in {"merge", "done"} /\ ret # None =>
        /\ DOMAIN ret[1].values \subseteq Elements(dates)
        /\ \A k \in 1..Len(dates) :
              IF k <= Len(ValueRegion) /\ IsSlotToken(ValueRegion[k])
              THEN /\ dates[k] \in DOMAIN ret[1].values
                   /\ ret[1].values[dates[k]] = StoredFor(ValueRegion[k])
              ELSE dates[k] \notin DOMAIN ret[1].values

\* a token of another shape between two values, all three within the dates
C1_Witness ==
    /\ pc = "done"
    /\ ret # None
    /\ Len(dates) >= 3
    /\ Len(ValueRegion) >= 3
    /\ ~IsSlotToken(ValueRegion[2])
    /\ IsValueToken(ValueRegion[3])
    /\ ret[1].values = (dates[1] :> ValueRegion[1] @@ dates[3] :> ValueRegion[3])

\* C6: a record is returned exactly when the line has 5 characters or more, 2
\* tokens or more, a value-shaped token, and a name phrase before the first
\* such token that normalizes to a canonical name; a line that gives no record
\* leaves the mapping of the caller as it was.
C6_RecordIffChecksPass ==
    /\ pc \in {"merge", "done"} =>
          (ret # None <=>
              /\ Len(line) >= 5
              /\ Len(LineParts) >= 2
              /\ ValueIndexes # {}
              /\ normalize_test_name(
                     Some(JoinSpace(SubSeq(LineParts, 1, MinOf(ValueIndexes) - 1)))) # None)
    /\ pc = "done" /\ ret = None => results = PriorResults
    /\ pc = "done" /\ ret # None =>
          \E n \in 1..Len(results) : results[n] = <<ret[1].name, ret[1].values>>

\* a line of exactly 5 characters is taken and merged
C6_Witness ==
    /\ pc = "done"
    /\ Len(line) = 5
    /\ ret # None
    /\ results # PriorResults

-----------------------------------------------------------------------------
(* Properties of extract_test_results *)

\* the line starts with "comment" or "end" or holds "www.", in any case of letters
StopShaped(ln) ==
    LET low == StrLower(ln) IN
    \/ Len(low) >= 7 /\ SubSeq(low, 1, 7) = "comment"
    \/ Len(low) >= 3 /\ SubSeq(low, 1, 3) = "end"
    \/ \E n \in 1..Len(low) : n + 3 <= Len(low) /\ SubSeq(low, n, n + 3) = "www."

\* indices (from 0) of the lines that hold 2 or more of the dates
HeaderIndexes ==
    {n \in 0..(Len(lines) - 1) :
        Cardinality({d \in 1..Len(dates) : Contains(dates[d], lines[n + 1])}) >= 2}

\* where the scan began
RegionStart == IF parsed # <<>> THEN parsed[1] ELSE i

\* index of the first stop line of the data region, Len(lines) when it has none
FirstStop ==
    LET stops == {n \in RegionStart..(Len(lines) - 1) : StopShaped(lines[n + 1])}
    IN IF stops = {} THEN Len(lines) ELSE MinOf(stops)

\* the mapping built from the lines m .. n-1 alone
RECURSIVE MappingOfLines(_, _, _)
MappingOfLines(m, n, res) ==
    IF m >= n THEN res
    ELSE MappingOfLines(m + 1, n, MergeTestData(res, parse_result_line(lines[m + 1], dates)))

\* C7: the first stop line of the data region and every line after it are never
\* handed to the line parser, and the mapping returned is the one built from the
\* lines before it.
C7_ScanEndsAtStopLine ==
    pc \in {"scan", "done"} =>
        /\ \A k \in 1..Len(parsed) : parsed[k] < FirstStop
        /\ \A k \in 1..Len(parsed) : parsed[k] = RegionStart + k - 1
        /\ pc = "done" =>
              /\ Len(parsed) = (IF FirstStop > RegionStart THEN FirstStop - RegionStart ELSE 0)
              /\ ret = Some(results)
              /\ results = MappingOfLines(RegionStart, FirstStop, <<>>)

\* a stop line with a result line behind it that the mapping does not hold
C7_Witness ==
    /\ pc = "done"
    /\ parsed # <<>>
    /\ FirstStop + 1 < Len(lines)
    /\ \E m \in (FirstStop + 1)..(Len(lines) - 1) :
          /\ parse_result_line(lines[m + 1], dates) # None
          /\ \A n \in 1..Len(results) :
                results[n][1] # parse_result_line(lines[m + 1], dates)[1].name

\* C8 as stated: with the header line at index h, the first line handed to the
\* line parser is the one at index h+4 and no line at index h+3 or below is.
C8_FirstParsedIsHeaderPlusFour ==
    pc \in {"scan", "done"} /\ HeaderIndexes # {} =>
        \A k \in 1..Len(parsed) : parsed[k] >= MinOf(HeaderIndexes) + 4

\* C8 as amended: the header line and 2 further lines are skipped; the first
\* line handed to the line parser is the one at index h+3, and no line at index
\* h+2 or below is.
C8_FirstParsedIsHeaderPlusThree ==
    pc \in {"scan", "done"} /\ HeaderIndexes # {} =>
        LET h == MinOf(HeaderIndexes) IN
        /\ \A k \in 1..Len(parsed) : parsed[k] >= h + 3
        /\ parsed # <<>> => parsed[1] = h + 3
        /\ pc = "done" /\ h + 3 < Len(lines) /\ ~StopShaped(lines[h + 4]) => parsed # <<>>
        /\ pc = "done" => results = MappingOfLines(h + 3, h + 3 + Len(parsed), <<>>)

\* a result line at index h+3 is parsed and recorded
C8_Witness ==
    /\ pc = "done"
    /\ HeaderIndexes # {}
    /\ parsed # <<>>
    /\ parsed[1] = MinOf(HeaderIndexes) + 3
    /\ parse_result_line(lines[parsed[1] + 1], dates) # None
    /\ results # <<>>

-----------------------------------------------------------------------------
(* Properties of populate_template_with_results *)

\* the canonical name is part of the cell, whatever the case of the letters
HoldsName(cell, test_name) == cell # NaN /\ Contains(StrLower(test_name), StrLower(cell))

\* indices (from 0) of the rows of the template whose Test cell holds the name
RowsHolding(test_name) ==
    {r \in 0..(Len(orig.rows) - 1) : HoldsName(orig.rows[r + 1][1], test_name)}

\* the values the entries have for the cell of row r and column c (from 0): an
\* entry writes to the first row that holds its name, a date to column 2 + its index
ValuesFor(r, c) ==
    UNION {{results[n][2][d] :
               d \in {x \in DOMAIN results[n][2] :
                         InSeq(x, dates) /\ c = 2 + FirstIndex(dates, x) - 1}} :
           n \in {m \in 1..Len(results) :
                     /\ RowsHolding(results[m][1]) # {}
                     /\ MinOf(RowsHolding(results[m][1])) = r}}

\* C2: the cells of the result that differ from the template's are those of the
\* first row holding an entry's name, at the columns of the entry's dates, and
\* they hold the entry's values; an entry whose name no row holds changes no
\* cell and is reported.
C2_OnlyNamedCellsChange ==
    pc = "done" =>
        /\ \A r \in 0..(Len(orig.rows) - 1) : \A c \in 0..(Len(orig.columns) - 1) :
              IF ValuesFor(r, c) = {} THEN df.rows[r + 1][c + 1] = orig.rows[r + 1][c + 1]
              ELSE df.rows[r + 1][c + 1] \in ValuesFor(r, c)
        /\ \A n \in 1..Len(results) :
              RowsHolding(results[n][1]) = {} => InSeq(results[n][1], diag)

\* C3: the template the caller holds has the column labels and the cells it had
\* before the call.
C3_TemplateUntouched == template_df = orig

-----------------------------------------------------------------------------
(* Properties of process_blood_test *)

StageOrder == <<"ocr", "debug", "dates", "extract", "load", "populate", "save">>

\* C9: with no date found the run ends after the text was saved to the debug
\* path, with no result and none of the later stages; with a date found the
\* stages come in the order extract, load, populate, save, and the output is
\* written once.
C9_StagesInOrder ==
    /\ Len(log) <= Len(StageOrder) /\ log = SubSeq(StageOrder, 1, Len(log))
    /\ Len(out_file) <= 1
    /\ Len(log) >= 2 => debug_file = Some(text)
    /\ Len(log) > 3 => dates # <<>>
    /\ pc = "done" /\ dates = <<>> =>
          /\ log = SubSeq(StageOrder, 1, 3)
          /\ ret = None
          /\ results = <<>> /\ template_df = EmptyFrame /\ df = EmptyFrame
          /\ out_file = <<>>
    /\ pc = "done" /\ dates # <<>> =>
          /\ log = StageOrder
          /\ out_file = <<df>>
          /\ ret = Some(df)

\* a text with lines but no date: the run is over, the text is on the debug path
C9_Witness ==
    /\ pc = "done"
    /\ text # ""
    /\ dates = <<>>
    /\ debug_file = Some(text)
    /\ out_file = <<>>

====
